---- MODULE Spec2Model ----
(***************************************************************************)
(* Mask-driven crop transforms of medlp/utilities/transforms.py:           *)
(* RandMarginalCropByMaskD and RandMarginalCrop2DByMaskD, as state         *)
(* machines over an operator object (its attributes) and the calls made    *)
(* on it.  Arrays are numpy arrays: a shape and a value per index tuple    *)
(* (0-based indices).                                                      *)
(***************************************************************************)
EXTENDS Integers, Sequences, FiniteSets, TLC

(***************************************************************************)
(* Bounds of the model.                                                    *)
(***************************************************************************)
\* largest margin_size a constructor is given
MaxMargin == 1
\* largest neighbor_slices a constructor is given
MaxNeighbor == 2
\* largest shift of an instance inside its volume
MaxShift == 2
\* the most image keys one operator is built with
MaxKeys == 2
\* largest length of an axis handed to divisible_size
MaxExtent == 5
\* largest divisor handed to divisible_size
MaxDivisor == 3
\* largest radius a morphology operator is given
MaxRadius == 2

\* Python's None (ids and sizes are never negative)
None == -1

(***************************************************************************)
(* Integer helpers.                                                        *)
(***************************************************************************)
Max2(a, b) == IF a >= b THEN a ELSE b
Min2(a, b) == IF a <= b THEN a ELSE b

SetMin(S) == CHOOSE x \in S : \A y \in S : x <= y
SetMax(S) == CHOOSE x \in S : \A y \in S : x >= y

\* int(num / 2) for an integer num: Python's int() truncates toward zero
TruncHalf(num) == IF num >= 0 THEN num \div 2 ELSE -((-num) \div 2)

\* CeilMul rounding down instead of up
CeilMul_Floor(dim, k) == (dim \div k) * k

\* CeilMul moving on to the next multiple even from a multiple
CeilMul_Next(dim, k) == (dim \div k + 1) * k

\* int(np.ceil(dim / k) * k) for dim >= 0, k > 0
CeilMul(dim, k) == ((dim + k - 1) \div k) * k

(***************************************************************************)
(* numpy arrays.                                                           *)
(***************************************************************************)
RECURSIVE Idx(_)
\* all index tuples of an array of the given shape
Idx(shape) ==
    IF shape = <<>> THEN {<<>>}
    ELSE {<<i>> \o r : i \in 0..(shape[1] - 1), r \in Idx(Tail(shape))}

\* the value a name holds before it is bound
NoArr == [shape |-> <<0>>, val |-> <<>>]

Ndim(a) == Len(a.shape)

\* np.unique(a): the set of values of a
Unique(a) == {a.val[i] : i \in DOMAIN a.val}

\* np.unique(a[a > 0])
UniquePositive(a) == {v \in Unique(a) : v > 0}

RECURSIVE Unsqueeze(_, _)
\* the index into an array of the given shape that a squeezed index stands for
Unsqueeze(idx, shape) ==
    IF shape = <<>> THEN <<>>
    ELSE IF shape[1] = 1 THEN <<0>> \o Unsqueeze(idx, Tail(shape))
    ELSE <<Head(idx)>> \o Unsqueeze(Tail(idx), Tail(shape))

\* ndarray.squeeze(): every axis of length 1 is removed
Squeeze(a) ==
    LET ns == SelectSeq(a.shape, LAMBDA n : n # 1)
    IN  [shape |-> ns, val |-> [i \in Idx(ns) |-> a.val[Unsqueeze(i, a.shape)]]]

\* tuple.index(1): 0-based position of the first axis of length 1
IndexOfOne(shape) == SetMin({i \in 1..Len(shape) : shape[i] = 1}) - 1

\* sequence s without / with an element at 0-based position ax
DropAt(s, ax) == SubSeq(s, 1, ax) \o SubSeq(s, ax + 2, Len(s))
InsertAt(s, ax, x) == SubSeq(s, 1, ax) \o <<x>> \o SubSeq(s, ax + 1, Len(s))

\* np.expand_dims(a, axis)
ExpandDims(a, axis) ==
    LET ns == InsertAt(a.shape, axis, 1)
    IN  [shape |-> ns, val |-> [i \in Idx(ns) |-> a.val[DropAt(i, axis)]]]

\* a[[c]]: fancy indexing of the first axis by the one-element list [c]
TakeChannel(a, c) ==
    LET ns == <<1>> \o Tail(a.shape)
    IN  [shape |-> ns, val |-> [i \in Idx(ns) |-> a.val[<<c>> \o Tail(i)]]]

\* start (or stop) of a Python slice on an axis of length n
SliceBound(b, n) == IF b < 0 THEN Max2(b + n, 0) ELSE Min2(b, n)

\* the indices lo:hi selects on an axis of length n, in order
SliceStart(w, n) == SliceBound(w[1], n)
SliceLen(w, n) == Max2(SliceBound(w[2], n) - SliceBound(w[1], n), 0)

\* a[w1[1]:w1[2], w2[1]:w2[2], ...]: basic slicing of the leading axes,
\* the axes after the last window are kept whole
Slice(a, wins) ==
    LET r == Ndim(a)
        ns == [i \in 1..r |-> IF i <= Len(wins) THEN SliceLen(wins[i], a.shape[i])
                              ELSE a.shape[i]]
        src(idx) == [i \in 1..r |-> IF i <= Len(wins)
                                    THEN idx[i] + SliceStart(wins[i], a.shape[i])
                                    ELSE idx[i]]
    IN  [shape |-> ns, val |-> [i \in Idx(ns) |-> a.val[src(i)]]]

\* foreground index tuples of a mask
Foreground(a) == {i \in DOMAIN a.val : a.val[i] > 0}

(***************************************************************************)
(* monai.utils helpers used by the croppers.  A constructor argument that  *)
(* may be an int or a sequence is [scalar |-> n] or [tuple |-> <<..>>].    *)
(***************************************************************************)
Scalar(n) == [scalar |-> n]
Tuple(s) == [tuple |-> s]
IsTuple(x) == "tuple" \in DOMAIN x

\* ensure_tuple_rep(tup, dim): a scalar is repeated dim times, a sequence of
\* length dim is kept, any other sequence raises ValueError (ok = FALSE)
ensure_tuple_rep(tup, dim) ==
    IF ~IsTuple(tup) THEN [ok |-> TRUE, v |-> Tuple([i \in 1..dim |-> tup.scalar])]
    ELSE IF Len(tup.tuple) = dim THEN [ok |-> TRUE, v |-> tup]
    ELSE [ok |-> FALSE, v |-> tup]

\* fall_back_tuple(k, (1,) * n): k broadcast to n axes, every entry that is
\* not > 0 replaced by the default 1
fall_back_tuple(k, n) ==
    LET u == ensure_tuple_rep(k, n)
    IN  [ok |-> u.ok,
         v |-> IF u.ok THEN [i \in 1..n |-> IF u.v.tuple[i] > 0 THEN u.v.tuple[i] ELSE 1]
               ELSE <<>>]

\* divisible_size(spatial_shape) of both croppers, for the divisor k
divisible_size(k, spatial_shape) ==
    LET kk == fall_back_tuple(k, Len(spatial_shape)).v
    IN  [i \in 1..Len(spatial_shape) |->
            IF kk[i] > 0 THEN CeilMul(spatial_shape[i], kk[i]) ELSE spatial_shape[i]]

(***************************************************************************)
(* Bounding box and largest connected component of a boolean mask.         *)
(***************************************************************************)
\* bbox_2D / bbox_3D: per axis the smallest and the largest index that holds
\* a foreground voxel, <<min, max>> per axis; the mask is not empty
bbox(m) ==
    LET F == Foreground(m)
    IN  [ax \in 1..Ndim(m) |-> <<SetMin({p[ax] : p \in F}), SetMax({p[ax] : p \in F})>>]

\* two index tuples share a face
Adjacent(p, q) ==
    \E ax \in 1..Len(p) :
        /\ (p[ax] - q[ax] = 1 \/ q[ax] - p[ax] = 1)
        /\ \A o \in 1..Len(p) : o # ax => p[o] = q[o]

RECURSIVE Grow(_, _, _)
\* the face-connected region of F that holds the voxels S, grown from the
\* voxels of S added last
Grow(S, last, F) ==
    LET N == {p \in F \ S : \E q \in last : Adjacent(p, q)}
    IN  IF N = {} THEN S ELSE Grow(S \cup N, N, F)

RECURSIVE Components(_)
\* the face-connected regions of the voxel set F
Components(F) ==
    IF F = {} THEN {}
    ELSE LET p == CHOOSE v \in F : TRUE
             c == Grow({p}, {p}, F)
         IN  {c} \cup Components(F \ c)

\* get_connected_comp(mask, topK=1, binary_output=True, min_th=0): the 0/1
\* masks of the largest region; regions of equal size are each a possible result
get_connected_comp(m) ==
    LET cs == Components(Foreground(m))
        big == {c \in cs : \A o \in cs : Cardinality(o) <= Cardinality(c)}
    IN  IF cs = {} THEN {m}
        ELSE {[shape |-> m.shape,
               val |-> [i \in DOMAIN m.val |-> IF i \in c THEN 1 ELSE 0]] : c \in big}

(***************************************************************************)
(* The label entry of a sample: a dict, a list or an int (v holds the dict, *)
(* the items of the list, or the int as its one item).                     *)
(***************************************************************************)
LabelDict(f) == [type |-> "dict", v |-> f]
LabelList(s) == [type |-> "list", v |-> s]
LabelInt(n) == [type |-> "int", v |-> <<n>>]

\* the isinstance chain that turns the label entry into an id -> value dict
NormLabel(label) ==
    IF label.type = "dict" THEN label.v
    ELSE IF label.type = "list" THEN [i \in 1..Len(label.v) |-> label.v[i]]
    ELSE [i \in {1} |-> label.v[1]]

\* In1d marking every nonzero voxel, whatever id it carries
In1d_NonZero(mask, sel) ==
    [shape |-> mask.shape,
     val |-> [i \in DOMAIN mask.val |-> IF mask.val[i] # 0 THEN 1 ELSE 0]]

\* np.where(np.in1d(mask, sel), True, False).reshape(mask.shape)
In1d(mask, sel) ==
    [shape |-> mask.shape,
     val |-> [i \in DOMAIN mask.val |-> IF mask.val[i] = sel THEN 1 ELSE 0]]

(***************************************************************************)
(* One pass of the loop over self.keys.  A pass yields                     *)
(*   st     "ok" or the exception that ended it                            *)
(*   self   the operator's attributes after the pass                       *)
(*   image, mask, label   what the pass writes to d[key], d[mask_key] and  *)
(*          d[label_key]                                                   *)
(*   loc    the locals of the pass                                         *)
(***************************************************************************)
\* the three assertions of a pass, by their messages
ShapeError == "AssertionError: Data shape must equal to Mask shape"
LabelNumError == "AssertionError: Mask data unique num must equal to label num"
RankError == "AssertionError: Currently only support 2D&3D data"

NoLoc ==
    [sel |-> None, drew |-> FALSE, lab |-> <<>>, new_mask |-> NoArr, ndim |-> 0,
     raw |-> <<>>, box |-> <<>>, size |-> <<>>, center |-> <<>>, wins |-> <<>>,
     z |-> None]

Raise(exc, self, loc) ==
    [st |-> exc, self |-> self, image |-> NoArr, mask |-> NoArr, label |-> None,
     loc |-> loc]

\* the slice bounds int(c - s/2) : int(c + s/2) per axis
Windows(center, size) ==
    [i \in 1..Len(size) |-> <<TruncHalf(2 * center[i] - size[i]),
                              TruncHalf(2 * center[i] + size[i])>>]

\* the one-hot branch (mask.shape[0] > 1) or the integer-coded branch that
\* builds new_mask from the id the operator holds
SubMask(mask, sel) ==
    IF mask.shape[1] > 1
    THEN IF sel < mask.shape[1] THEN [ok |-> TRUE, v |-> TakeChannel(mask, sel)]
         ELSE [ok |-> FALSE, v |-> NoArr]
    ELSE [ok |-> TRUE, v |-> In1d(mask, sel)]

\* np.expand_dims of both outputs when a channel axis was squeezed
Expand(self, image, mask, channel_dim, loc) ==
    [st |-> "ok", self |-> self,
     image |-> IF channel_dim # None THEN ExpandDims(image, channel_dim) ELSE image,
     mask |-> IF channel_dim # None THEN ExpandDims(mask, channel_dim) ELSE mask,
     label |-> None, loc |-> loc]

\* Lookup with the label taken from the dict's first entry, whatever id is held
Lookup_FirstEntry(p, select) ==
    IF p.st # "ok" THEN p
    ELSE [p EXCEPT !.label = p.loc.lab[SetMin(DOMAIN p.loc.lab)]]

\* d[label_key] = label[select], select being the id the operator holds now
Lookup(p, select) ==
    IF p.st # "ok" THEN p
    ELSE IF select \notin DOMAIN p.loc.lab THEN Raise("KeyError", p.self, p.loc)
    ELSE [p EXCEPT !.label = p.loc.lab[select]]

\* ByMaskCut with the margin left out of the box
ByMaskCut_NoMargin(self, new_data, bound, new_mask, channel_dim, loc) ==
    IF Foreground(new_mask) = {} THEN Raise("IndexError", self, loc)
    ELSE
    LET raw == bbox(new_mask)
        box == raw
        crop_size == divisible_size(self.k, [i \in 1..Len(box) |-> box[i][2] - box[i][1]])
        center == [i \in 1..Len(box) |-> (box[i][1] + box[i][2]) \div 2]
        wins == Windows(center, crop_size)
        loc2 == [loc EXCEPT !.raw = raw, !.box = box, !.size = crop_size,
                            !.center = center, !.wins = wins]
    IN  IF ~bound THEN Raise("UnboundLocalError", self, loc2)
        ELSE Expand(self, Slice(new_data, wins), Slice(new_mask, wins), channel_dim, loc2)

\* RandMarginalCropByMaskD: bounding box, margin, divisible extent, slicing
ByMaskCut(self, new_data, bound, new_mask, channel_dim, loc) ==
    IF Foreground(new_mask) = {} THEN Raise("IndexError", self, loc)
    ELSE
    LET raw == bbox(new_mask)
        m == self.margin_size.tuple
        box == [i \in 1..Len(raw) |-> <<raw[i][1] - m[i], raw[i][2] + m[i]>>]
        crop_size == divisible_size(self.k, [i \in 1..Len(box) |-> box[i][2] - box[i][1]])
        center == [i \in 1..Len(box) |-> (box[i][1] + box[i][2]) \div 2]
        wins == Windows(center, crop_size)
        loc2 == [loc EXCEPT !.raw = raw, !.box = box, !.size = crop_size,
                            !.center = center, !.wins = wins]
    IN  IF ~bound THEN Raise("UnboundLocalError", self, loc2)
        ELSE Expand(self, Slice(new_data, wins), Slice(new_mask, wins), channel_dim, loc2)

\* RandMarginalCropByMaskD: from the rank check to the end of the pass
ByMaskCrop(self, data, mask1, loc) ==
    LET sq == Squeeze(mask1)
        input_ndim == Ndim(sq)
        ms == ensure_tuple_rep(self.margin_size, input_ndim)
        self2 == [self EXCEPT !.margin_size = ms.v]
        squeezed == input_ndim # Ndim(mask1)
        channel_dim == IF squeezed THEN IndexOfOne(mask1.shape) ELSE None
        new_data == IF squeezed THEN Squeeze(data) ELSE NoArr
        loc0 == [loc EXCEPT !.new_mask = mask1, !.ndim = input_ndim]
    IN  IF input_ndim \notin {2, 3} THEN {Raise(RankError, self, loc0)}
        ELSE IF ~ms.ok THEN {Raise("ValueError", self, loc0)}
        ELSE {ByMaskCut(self2, new_data, squeezed, nm, channel_dim,
                        [loc EXCEPT !.new_mask = nm, !.ndim = input_ndim]) :
                nm \in IF self.keep_largest THEN get_connected_comp(sq) ELSE {sq}}

\* the two assertions at the head of a pass
ShapesEqual(data, mask) == data.shape = mask.shape
LabelCountOk(mask, lab) == Cardinality(Unique(mask)) - 1 = Cardinality(DOMAIN lab)

\* RandMarginalCropByMaskD.randomize: the ids R.choice can return
Candidates(mask) == UniquePositive(mask)

\* RandMarginalCropByMaskD.__call__, head of a pass: the label dict, the two
\* assertions and randomize, which stores the drawn id in the operator
ByMaskHead(self, data, mask, label) ==
    LET lab == NormLabel(label)
        loc == [NoLoc EXCEPT !.lab = lab]
    IN  IF ~ShapesEqual(data, mask) THEN {Raise(ShapeError, self, loc)}
        ELSE IF ~LabelCountOk(mask, lab) THEN {Raise(LabelNumError, self, loc)}
        ELSE IF Candidates(mask) = {} THEN {Raise("ValueError", self, loc)}
        ELSE {Raise("drawn", [self EXCEPT !.select_label = c], [loc EXCEPT !.drew = TRUE]) :
                c \in Candidates(mask)}

\* RandMarginalCropByMaskD.__call__, from the one-hot test to expand_dims:
\* new_mask is built from the id the operator holds
ByMaskTail(self, data, mask, loc) ==
    LET loc1 == [loc EXCEPT !.sel = self.select_label]
        sub == SubMask(mask, self.select_label)
    IN  IF ~sub.ok THEN {Raise("IndexError", self, loc1)}
        ELSE ByMaskCrop(self, data, sub.v, loc1)

\* RandMarginalCropByMaskD.__call__, one pass for one key
ByMaskPass(self, data, mask, label) ==
    UNION {IF h.st # "drawn" THEN {h}
           ELSE {Lookup(p, p.self.select_label) :
                    p \in ByMaskTail(h.self, data, mask, h.loc)}
           : h \in ByMaskHead(self, data, mask, label)}

\* MiddleThird with the end of the range included
MiddleThird_Inclusive(zmin, zmax) ==
    (zmin + (zmax - zmin) \div 3) .. (zmax - (zmax - zmin) \div 3)

\* range(zmin + (zmax-zmin)//3, zmax - (zmax-zmin)//3): the slices
\* random.choice can return
MiddleThird(zmin, zmax) ==
    (zmin + (zmax - zmin) \div 3) .. (zmax - (zmax - zmin) \div 3 - 1)

\* the in-plane extent RandMarginalCrop2DByMaskD cuts around the centre:
\* divisible_size of it when k > 0, the extent itself otherwise
SpatialSize(self, center) ==
    LET cs == self.crop_size.tuple
        lo == [i \in 1..2 |-> center[i] - cs[i] \div 2]
        hi == [i \in 1..2 |-> center[i] + cs[i] \div 2]
        ext == [i \in 1..2 |-> hi[i] - lo[i]]
    IN  IF self.k.scalar > 0 THEN divisible_size(self.k, ext) ELSE ext

\* RandMarginalCrop2DByMaskD: bounding box, centre, in-plane extent, the
\* through-plane window around the slice z_, slicing.  For a volume z_ is
\* drawn right after the bounding box: when there is no slice to draw, the
\* pass ends with the box as its only local
Crop2DCut(self, new_data, bound, new_mask, channel_dim, loc) ==
    IF Foreground(new_mask) = {} THEN {Raise("IndexError", self, loc)}
    ELSE
    LET raw == bbox(new_mask)
        center == [i \in 1..2 |-> (raw[i][1] + raw[i][2]) \div 2]
        spatial_size == SpatialSize(self, center)
        loc1 == [loc EXCEPT !.raw = raw, !.box = raw]
        loc2 == [loc1 EXCEPT !.size = spatial_size, !.center = center]
    IN  IF loc.ndim = 2
        THEN LET wins == Windows(center, spatial_size)
                 loc3 == [loc2 EXCEPT !.wins = wins]
             IN  IF ~bound THEN {Raise("UnboundLocalError", self, loc3)}
                 ELSE {Expand(self, Slice(new_data, wins), Slice(new_mask, wins),
                              channel_dim, loc3)}
        ELSE IF MiddleThird(raw[3][1], raw[3][2]) = {}
             THEN {Raise("IndexError", self, loc1)}
        ELSE {LET wins == Windows(center, spatial_size)
                          \o <<(<<z_ - self.neighbor_slices,
                                  z_ + self.neighbor_slices + 1>>)>>
                  loc3 == [loc2 EXCEPT !.wins = wins, !.z = z_]
              IN  IF ~bound THEN Raise("UnboundLocalError", self, loc3)
                  ELSE Expand(self, Slice(new_data, wins), Slice(new_mask, wins),
                              channel_dim, loc3)
              : z_ \in MiddleThird(raw[3][1], raw[3][2])}

\* RandMarginalCrop2DByMaskD: from the rank check to the end of the pass
Crop2DCrop(self, data, mask1, loc) ==
    LET sq == Squeeze(mask1)
        input_ndim == Ndim(sq)
        cs == ensure_tuple_rep(self.crop_size, 2)
        self2 == [self EXCEPT !.crop_size = cs.v]
        squeezed == input_ndim # Ndim(mask1)
        channel_dim == IF squeezed THEN IndexOfOne(mask1.shape) ELSE None
        new_data == IF squeezed THEN Squeeze(data) ELSE NoArr
        loc0 == [loc EXCEPT !.new_mask = mask1, !.ndim = input_ndim]
    IN  IF input_ndim \notin {2, 3} THEN {Raise(RankError, self, loc0)}
        ELSE IF ~cs.ok THEN {Raise("ValueError", self, loc0)}
        ELSE UNION {Crop2DCut(self2, new_data, squeezed, nm, channel_dim,
                              [loc EXCEPT !.new_mask = nm, !.ndim = input_ndim]) :
                nm \in IF self.keep_largest THEN get_connected_comp(sq) ELSE {sq}}

\* RandMarginalCrop2DByMaskD.__call__, one pass for one key: randomize runs
\* only while select_msk is None
Crop2DPass(self, data, mask, label) ==
    LET lab == NormLabel(label)
        loc == [NoLoc EXCEPT !.lab = lab]
        draws == self.select_msk = None
    IN  IF ~ShapesEqual(data, mask) THEN {Raise(ShapeError, self, loc)}
        ELSE IF ~LabelCountOk(mask, lab) THEN {Raise(LabelNumError, self, loc)}
        ELSE IF draws /\ Candidates(mask) = {} THEN {Raise("ValueError", self, loc)}
        ELSE UNION {
            LET self1 == [self EXCEPT !.select_msk = c]
                loc1 == [loc EXCEPT !.drew = draws, !.sel = self1.select_msk]
                sub == SubMask(mask, self1.select_msk)
            IN  IF ~sub.ok THEN {Raise("IndexError", self1, loc1)}
                ELSE {Lookup(p, p.self.select_msk) :
                        p \in Crop2DCrop(self1, data, sub.v, loc1)}
            : c \in IF draws THEN Candidates(mask) ELSE {self.select_msk}}

(***************************************************************************)
(* A whole call: d = dict(img), then one pass per key, each pass reading   *)
(* d[key], d[mask_key] and d[label_key] as the passes before it left them. *)
(* An exception ends the call; the attributes written before it stay.      *)
(***************************************************************************)
NoSample == [images |-> <<>>, mask |-> NoArr, label |-> LabelInt(None)]

\* no call made, or its result taken
NoCall == [st |-> "none", d |-> NoSample, locs |-> <<>>]

IsByMask(self) == self.cls = "RandMarginalCropByMaskD"

Pass(self, data, mask, label) ==
    IF IsByMask(self) THEN ByMaskPass(self, data, mask, label)
    ELSE Crop2DPass(self, data, mask, label)

\* the result of a call: status, the returned dict, the locals of every pass
NoResult(d) == [st |-> "ok", d |-> d, locs |-> <<>>]

RECURSIVE RunKeys(_, _, _)
\* the passes for the keys key..Len(d.images), from the operator self and the
\* partial result res; a set of <<operator after, result>>
RunKeys(self, res, key) ==
    IF key > self.nkeys THEN {<<self, res>>}
    ELSE UNION {
        IF p.st # "ok"
        THEN {<<p.self, [st |-> p.st, d |-> res.d, locs |-> Append(res.locs, p.loc)]>>}
        ELSE RunKeys(p.self,
                     [st |-> "ok",
                      d |-> [images |-> [res.d.images EXCEPT ![key] = p.image],
                             mask |-> p.mask,
                             label |-> LabelInt(p.label)],
                      locs |-> Append(res.locs, p.loc)],
                     key + 1)
        : p \in Pass(self, res.d.images[key], res.d.mask, res.d.label)}

\* self(d): every <<operator after, result>> the call can end in
Call(self, d) == RunKeys(self, NoResult(d), 1)

(***************************************************************************)
(* Samples: the dicts a call is given.  A mask is painted from boxes, each *)
(* box <<id, lo, hi>> giving its id to the indices lo..hi (inclusive); the *)
(* image of a sample holds at every index that index, so that a cropped    *)
(* image tells where each of its voxels comes from.                        *)
(***************************************************************************)
InBox(i, b) == \A a \in 1..Len(i) : b[2][a] <= i[a] /\ i[a] <= b[3][a]

Paint(shape, boxes, bg) ==
    [shape |-> shape,
     val |-> [i \in Idx(shape) |->
                LET hits == {j \in 1..Len(boxes) : InBox(i, boxes[j])}
                IN  IF hits = {} THEN bg ELSE boxes[SetMax(hits)][1]]]

PosArr(shape) == [shape |-> shape, val |-> [i \in Idx(shape) |-> i]]

Sample(mask, label, imshape) ==
    [images |-> [key \in 1..MaxKeys |-> PosArr(imshape)], mask |-> mask, label |-> label]

\* the label entry for ids 1..n in each of its accepted forms
Labels2 == {LabelDict([i \in {1, 2} |-> 10 * i]), LabelList(<<10, 20>>)}

\* (1,6,6): instance 1 is a 2x3 block shifted by s plus a detached voxel,
\* instance 2 a 2x1 block in the last column
Planar(s) ==
    Paint(<<1, 6, 6>>, << <<1, <<0, s, s>>, <<0, s + 1, s + 2>> >>,
                          <<1, <<0, 0, 5>>, <<0, 0, 5>> >>,
                          <<2, <<0, 4, 5>>, <<0, 5, 5>> >> >>, 0)

\* (1,4,4,4): instance 1 is a 2x2x2 block shifted by s along every axis,
\* instance 2 one voxel in the far corner
Cubic(s) ==
    Paint(<<1, 4, 4, 4>>, << <<2, <<0, 3, 3, 3>>, <<0, 3, 3, 3>> >>,
                             <<1, <<0, s, s, s>>, <<0, s + 1, s + 1, s + 1>> >> >>, 0)

\* (1,2,2,D): one instance, a column that spans the through-plane slices
\* 5s .. 5s+10
DeepLen == 5 * MaxShift + 11
Deep(s) ==
    Paint(<<1, 2, 2, DeepLen>>,
          << <<1, <<0, 1, 1, 5 * s>>, <<0, 1, 1, 5 * s + 10>> >> >>, 0)

\* (2,3,3): a one-hot mask, channel 1 holds a 2x2 block
OneHot ==
    Paint(<<2, 3, 3>>, << <<1, <<0, 0, 0>>, <<0, 0, 2>> >>,
                          <<1, <<1, 1, 1>>, <<1, 2, 2>> >> >>, 0)

\* (1,2,2): ids 1 and 2 and no background voxel
Full == Paint(<<1, 2, 2>>, << <<2, <<0, 1, 0>>, <<0, 1, 1>> >> >>, 1)

\* (1,6,6): ids 1, 2 and 3
ThreeIds ==
    Paint(<<1, 6, 6>>, << <<1, <<0, 1, 1>>, <<0, 2, 2>> >>,
                          <<2, <<0, 4, 1>>, <<0, 4, 2>> >>,
                          <<3, <<0, 1, 4>>, <<0, 1, 4>> >> >>, 0)

\* (1,3,3): background only
Empty == Paint(<<1, 3, 3>>, <<>>, 0)

\* (1,1,1,3): spatial rank 1 once squeezed
Line == Paint(<<1, 1, 1, 3>>, << <<1, <<0, 0, 0, 1>>, <<0, 0, 0, 1>> >> >>, 0)

\* (1,10,10): a 3x3 square at rows 4..6, columns 4..6
Square == Paint(<<1, 10, 10>>, << <<1, <<0, 4, 4>>, <<0, 6, 6>> >> >>, 0)

Shifts == 0..MaxShift

Samples ==
    {Sample(Planar(s), l, <<1, 6, 6>>) : s \in Shifts, l \in Labels2}
    \cup {Sample(Cubic(s), l, <<1, 4, 4, 4>>) : s \in Shifts, l \in Labels2}
    \cup {Sample(Deep(s), LabelInt(10), <<1, 2, 2, DeepLen>>) : s \in Shifts}
    \cup {Sample(OneHot, LabelInt(10), <<2, 3, 3>>),
          Sample(Full, LabelList(<<10, 20>>), <<1, 2, 2>>),
          Sample(ThreeIds, LabelList(<<10, 20>>), <<1, 6, 6>>),
          Sample(ThreeIds, LabelList(<<10, 20, 30>>), <<1, 6, 6>>),
          Sample(Empty, LabelList(<<>>), <<1, 3, 3>>),
          Sample(Line, LabelInt(10), <<1, 1, 1, 3>>),
          Sample(Planar(0), LabelList(<<10, 20>>), <<1, 6, 5>>),
          Sample(Square, LabelInt(10), <<1, 10, 10>>)}

(***************************************************************************)
(* Constructors.                                                           *)
(***************************************************************************)
Margins == {Scalar(m) : m \in 0..MaxMargin} \cup {Tuple(<<1, 0>>)}
Divisors == {0, 2, 4}
CropSizes == {Scalar(2), Scalar(3), Tuple(<<4, 2>>)}

\* RandMarginalCropByMaskD.__init__
NewByMask(nkeys, margin_size, divide_by_k, keep_largest) ==
    [cls |-> "RandMarginalCropByMaskD", nkeys |-> nkeys, margin_size |-> margin_size,
     k |-> Scalar(divide_by_k), keep_largest |-> keep_largest, select_label |-> None]

\* RandMarginalCrop2DByMaskD.__init__
NewCrop2D(nkeys, crop_size, divide_by_k, neighbor_slices, keep_largest, select_msk) ==
    [cls |-> "RandMarginalCrop2DByMaskD", nkeys |-> nkeys, crop_size |-> crop_size,
     k |-> Scalar(divide_by_k), neighbor_slices |-> neighbor_slices,
     keep_largest |-> keep_largest, select_msk |-> select_msk]

Operators ==
    {NewByMask(n, m, k, kl) :
        n \in 1..MaxKeys, m \in Margins, k \in Divisors, kl \in BOOLEAN}
    \cup {NewCrop2D(n, cs, k, ns, kl, sm) :
        n \in 1..MaxKeys, cs \in CropSizes, k \in Divisors, ns \in 0..MaxNeighbor,
        kl \in BOOLEAN, sm \in {None, 1}}

(***************************************************************************)
(* State: the operator as constructed, its attributes now, the sample and  *)
(* the result of the last call made on it.                                 *)
(* th holds, for calls that run in threads sharing the operator, each      *)
(* thread's position in __call__ and its locals.                          *)
(***************************************************************************)
VARIABLES ctor, self, inp, out, th

vars == <<ctor, self, inp, out, th>>

Threads == {1, 2}
Idle == [pc |-> "idle", d |-> NoSample, p |-> Raise("none", [cls |-> "none"], NoLoc)]

Init ==
    /\ ctor \in Operators
    /\ self = ctor
    /\ inp = NoSample
    /\ out = NoCall
    /\ th = [t \in Threads |-> Idle]

\* RandMarginalCropByMaskD.__call__
CallByMask ==
    /\ IsByMask(self)
    /\ out = NoCall
    /\ \E d \in Samples : \E r \in Call(self, d) :
        /\ self' = r[1]
        /\ out' = r[2]
        /\ inp' = d
    /\ UNCHANGED <<ctor, th>>

\* RandMarginalCrop2DByMaskD.__call__
CallCrop2D ==
    /\ ~IsByMask(self)
    /\ out = NoCall
    /\ \E d \in Samples : \E r \in Call(self, d) :
        /\ self' = r[1]
        /\ out' = r[2]
        /\ inp' = d
    /\ UNCHANGED <<ctor, th>>

\* the caller takes the result (or the exception); the operator is kept for
\* the next call
Return ==
    /\ out # NoCall
    /\ out' = NoCall
    /\ inp' = NoSample
    /\ UNCHANGED <<ctor, self, th>>

\* the ids of the list randomize is handed
GivenIds == {1, 2, 3}

\* RandMarginalCropByMaskD.randomize(label), called from outside __call__
\* at any moment: select_label becomes an element of label
RandomizeByMask ==
    /\ IsByMask(self)
    /\ \E c \in GivenIds : self' = [self EXCEPT !.select_label = c]
    /\ UNCHANGED <<ctor, inp, out, th>>

\* RandMarginalCrop2DByMaskD.randomize(label), called from outside __call__
\* at any moment: select_msk becomes an element of label
RandomizeCrop2D ==
    /\ ~IsByMask(self)
    /\ \E c \in GivenIds : self' = [self EXCEPT !.select_msk = c]
    /\ UNCHANGED <<ctor, inp, out, th>>

Next == CallByMask \/ CallCrop2D \/ RandomizeByMask \/ RandomizeCrop2D \/ Return

Spec == Init /\ [][Next]_vars

(***************************************************************************)
(* Two threads call one RandMarginalCropByMaskD (one key) without a lock.  *)
(* A thread can be preempted between the statements of __call__; the       *)
(* steps below are cut where __call__ reads or writes self.select_label.   *)
(***************************************************************************)
SharedOperators == {NewByMask(1, Scalar(0), k, kl) : k \in {0, 4}, kl \in BOOLEAN}

SharedSamples == {Sample(Planar(s), LabelList(<<10, 20>>), <<1, 6, 6>>) : s \in Shifts}

InitShared ==
    /\ ctor \in SharedOperators
    /\ self = ctor
    /\ inp = NoSample
    /\ out = NoCall
    /\ th = [t \in Threads |-> Idle]

\* lines 432-446: the assertions and randomize
Begin(t) ==
    /\ th[t].pc = "idle"
    /\ \E d \in SharedSamples : \E h \in ByMaskHead(self, d.images[1], d.mask, d.label) :
        /\ self' = h.self
        /\ th' = [th EXCEPT ![t] = [pc |-> IF h.st = "drawn" THEN "cut" ELSE "done",
                                     d |-> d, p |-> h]]
    /\ UNCHANGED <<ctor, inp, out>>

\* lines 449-494: new_mask from self.select_label, the crop of image and mask
Cut(t) ==
    /\ th[t].pc = "cut"
    /\ \E p \in ByMaskTail(self, th[t].d.images[1], th[t].d.mask, th[t].p.loc) :
        /\ self' = p.self
        /\ th' = [th EXCEPT ![t].pc = IF p.st = "ok" THEN "label" ELSE "done", ![t].p = p]
    /\ UNCHANGED <<ctor, inp, out>>

\* line 495: d[label_key] = label[self.select_label]
Label(t) ==
    /\ th[t].pc = "label"
    /\ th' = [th EXCEPT ![t].pc = "done", ![t].p = Lookup(th[t].p, self.select_label)]
    /\ UNCHANGED <<ctor, self, inp, out>>

\* the thread's caller takes the result
Finish(t) ==
    /\ th[t].pc = "done"
    /\ th' = [th EXCEPT ![t] = Idle]
    /\ UNCHANGED <<ctor, self, inp, out>>

\* RandMarginalCropByMaskD.randomize(label) called on the shared operator
\* from outside __call__, at any moment
RandomizeShared ==
    /\ \E c \in GivenIds : self' = [self EXCEPT !.select_label = c]
    /\ UNCHANGED <<ctor, inp, out, th>>

NextShared ==
    \/ \E t \in Threads : Begin(t) \/ Cut(t) \/ Label(t) \/ Finish(t)
    \/ RandomizeShared

SpecShared == InitShared /\ [][NextShared]_vars

(***************************************************************************)
(* Properties.                                                             *)
(***************************************************************************)
Called == out # NoCall
Returned == out.st = "ok"
\* the locals of the first and of the last pass of the call
First == out.locs[1]
Last == out.locs[Len(out.locs)]
\* the image and the mask the last pass has cut
LastImage == out.d.images[Len(out.locs)]
LastInput == inp.images[Len(out.locs)]

\* the index p of an array of the given shape, as an index of its squeeze()
Squeezed(p, shape) ==
    LET ks == SelectSeq([i \in 1..Len(shape) |-> i], LAMBDA i : shape[i] # 1)
    IN  [j \in 1..Len(ks) |-> p[ks[j]]]

\* the smallest multiple of k that is >= n; n itself when k <= 0
RoundUp(n, k) == IF k > 0 THEN CHOOSE m \in n..(n + k - 1) : m % k = 0 ELSE n

\* C1: image and mask are cut with the same index window: the returned image
\* and mask have the same shape, and every voxel of the returned mask is the
\* submask's voxel at the input position the returned image's voxel comes from.
C1_SameWindow ==
    Returned =>
        /\ LastImage.shape = out.d.mask.shape
        /\ \A q \in DOMAIN out.d.mask.val :
              out.d.mask.val[q] = Last.new_mask.val[Squeezed(LastImage.val[q], LastInput.shape)]

\* the window of a pass lies inside the array it cuts
WindowInside(loc) ==
    \A i \in 1..Len(loc.wins) :
        /\ 0 <= loc.wins[i][1]
        /\ loc.wins[i][1] <= loc.wins[i][2]
        /\ loc.wins[i][2] <= loc.new_mask.shape[i]

\* C2: in RandMarginalCropByMaskD, when the window lies inside the array, every
\* foreground voxel of the submask is present in the returned mask crop.
C2_BoxInWindow ==
    (IsByMask(self) /\ Returned /\ Len(out.locs) = 1 /\ WindowInside(First)) =>
        Cardinality(Foreground(out.d.mask)) = Cardinality(Foreground(First.new_mask))

\* the configured crop_size of axis i
CropSizeOf(c, i) == IF IsTuple(c.crop_size) THEN c.crop_size.tuple[i] ELSE c.crop_size.scalar

\* C3: on a successful call every cropped axis of the returned image and mask
\* has the divisible-rounded extent: the margined box extent rounded up to a
\* multiple of divide_by_k (RandMarginalCropByMaskD), the smallest multiple of
\* divide_by_k >= crop_size, or crop_size when divide_by_k <= 0
\* (RandMarginalCrop2DByMaskD).
C3_ExactExtent ==
    (Returned /\ Len(out.locs) = 1) =>
        \A i \in 1..Len(First.size) :
            LET want == IF IsByMask(ctor)
                        THEN RoundUp(First.box[i][2] - First.box[i][1], ctor.k.scalar)
                        ELSE RoundUp(CropSizeOf(ctor, i), ctor.k.scalar)
            IN  /\ out.d.mask.shape[i + 1] = want
                /\ out.d.images[1].shape[i + 1] = want

\* the call was ended by the label-count assertion of its first pass
LabelCountRejected == Len(out.locs) = 1 /\ out.st = LabelNumError

\* C4: given image and mask of equal shape, the input is rejected exactly when
\* the number of distinct positive ids of the mask differs from the number of
\* entries of the label dictionary.
C4_RejectsExactly ==
    (Called /\ inp.images[1].shape = inp.mask.shape) =>
        (LabelCountRejected <=>
            Cardinality(UniquePositive(inp.mask)) # Cardinality(DOMAIN NormLabel(inp.label)))

\* C5: on a successful call the returned label is the label dictionary's value
\* for the id whose voxels form the returned mask: the submask holds only
\* voxels the input mask gives that id, and the label is the dict's entry for it.
C5_LabelOfSelected ==
    Returned =>
        /\ First.sel \in DOMAIN NormLabel(inp.label)
        /\ out.d.label = LabelInt(NormLabel(inp.label)[First.sel])
        /\ Foreground(First.new_mask)
              \subseteq Foreground(Squeeze(SubMask(inp.mask, First.sel).v))

C5_Witness ==
    /\ Returned
    /\ First.sel = 2
    /\ out.d.label = LabelInt(20)
    /\ Cardinality(DOMAIN First.lab) = 2
    /\ Foreground(out.d.mask) # {}

\* C6: for RandMarginalCropByMaskD and for a RandMarginalCrop2DByMaskD built
\* without a fixed id, every call that selects an instance draws its id anew
\* from the positive ids of that call's mask.
C6_DrawnAnew ==
    (Called /\ First.sel # None /\ (IsByMask(ctor) \/ ctor.select_msk = None)) =>
        /\ First.drew
        /\ First.sel \in UniquePositive(inp.mask)

\* C7: a call of RandMarginalCropByMaskD on a sample, with a given draw, ends
\* as the first call on a newly built operator ends on that sample with that
\* draw.
C7_SameAsFirstCall ==
    (Called /\ IsByMask(ctor)) => \E r \in Call(ctor, inp) : r[2] = out

\* C8: when two calls on one RandMarginalCropByMaskD interleave, each returns
\* the label of the id its own returned mask was built from.
C8_OwnLabel ==
    \A t \in Threads :
        (th[t].pc = "done" /\ th[t].p.st = "ok") =>
            th[t].p.label = th[t].p.loc.lab[th[t].p.loc.sel]

\* the case of C9: RandMarginalCrop2DByMaskD with neighbor_slices = 2 on a 3D
\* submask whose bounding box spans z in [10,20]
C9_Case ==
    /\ Called
    /\ ~IsByMask(ctor)
    /\ ctor.neighbor_slices = 2
    /\ First.ndim = 3
    /\ First.raw # <<>>
    /\ First.raw[3] = <<10, 20>>

\* C9: in that case the central slice is drawn from {13,14,15,16} and the
\* mask and image the pass cuts have exactly 5 through-plane slices.
C9_MiddleThird ==
    C9_Case =>
        /\ First.z \in {13, 14, 15, 16}
        /\ Returned => /\ out.d.mask.shape[4] = 5
                       /\ out.d.images[1].shape[4] = 5
                       /\ \A q \in DOMAIN out.d.images[1].val :
                             out.d.images[1].val[q][4] = First.z - 2 + q[4]

C9_Witness == C9_Case /\ Returned /\ First.z = 16 /\ Foreground(out.d.mask) # {}

\* C10: for every 3D input and neighbor_slices = n, a successful call of
\* RandMarginalCrop2DByMaskD returns exactly the 2n+1 slices z-n .. z+n.
C10_NeighborWindow ==
    (Returned /\ ~IsByMask(ctor) /\ Len(out.locs) = 1 /\ First.ndim = 3) =>
        /\ out.d.mask.shape[4] = 2 * ctor.neighbor_slices + 1
        /\ out.d.images[1].shape[4] = 2 * ctor.neighbor_slices + 1
        /\ \A q \in DOMAIN out.d.images[1].val :
              out.d.images[1].val[q][4] = First.z - ctor.neighbor_slices + q[4]

(***************************************************************************)
(* divisible_size on its own: an operator built with the divisor k, asked  *)
(* for the divisible size of an extent and then of the size it returned.   *)
(***************************************************************************)
DivKs ==
    {Scalar(k) : k \in -1..MaxDivisor}
    \cup {Tuple(<<a, b>>) : a, b \in {0, 2, MaxDivisor}}
    \cup {Tuple(<<2, 0, MaxDivisor>>)}

Extents ==
    {<<a, b>> : a, b \in 0..MaxExtent}
    \cup {<<a, a + 1, MaxExtent>> : a \in 0..MaxExtent}

DivOperators ==
    {[NewByMask(1, Scalar(0), 0, FALSE) EXCEPT !.k = k] : k \in DivKs}
    \cup {[NewCrop2D(1, Scalar(2), 0, 0, FALSE, None) EXCEPT !.k = k] : k \in DivKs}

NoSize == [st |-> "none", first |-> <<>>, v |-> <<>>]

InitDiv ==
    /\ ctor \in DivOperators
    /\ self = ctor
    /\ inp \in Extents
    /\ out = NoSize
    /\ th = [t \in Threads |-> Idle]

\* self.divisible_size(spatial_shape); fall_back_tuple raises ValueError for
\* a divisor tuple whose length is not the extent's
DivisibleSize ==
    /\ out.st = "none"
    /\ out' = IF fall_back_tuple(self.k, Len(inp)).ok
              THEN LET r == divisible_size(self.k, inp)
                   IN  [st |-> "once", first |-> r, v |-> r]
              ELSE [st |-> "ValueError", first |-> <<>>, v |-> <<>>]
    /\ UNCHANGED <<ctor, self, inp, th>>

\* self.divisible_size(size), size being what the call before returned
DivisibleSizeAgain ==
    /\ out.st = "once"
    /\ out' = [out EXCEPT !.st = "twice", !.v = divisible_size(self.k, out.first)]
    /\ UNCHANGED <<ctor, self, inp, th>>

NextDiv == DivisibleSize \/ DivisibleSizeAgain

SpecDiv == InitDiv /\ [][NextDiv]_vars

\* the divisor of axis i (1-based)
DivisorOf(k, i) == IF IsTuple(k) THEN k.tuple[i] ELSE k.scalar

\* C11: divisible_size returns, per axis, the smallest integer >= the input
\* length that is a multiple of the divisor when the divisor is > 0, and the
\* input length when the divisor is <= 0, for scalar and per-axis divisors.
C11_SmallestMultiple ==
    (out.st = "once") =>
        /\ Len(out.v) = Len(inp)
        /\ \A i \in 1..Len(inp) :
              LET k == DivisorOf(ctor.k, i)
              IN  IF k > 0
                  THEN /\ out.v[i] >= inp[i]
                       /\ out.v[i] % k = 0
                       /\ out.v[i] - inp[i] < k
                  ELSE out.v[i] = inp[i]

C11_Witness ==
    /\ out.st = "once"
    /\ IsTuple(ctor.k)
    /\ \E i \in 1..Len(inp) : DivisorOf(ctor.k, i) > 1 /\ out.v[i] > inp[i]
    /\ \E i \in 1..Len(inp) : DivisorOf(ctor.k, i) <= 0 /\ inp[i] > 0

\* C12: divisible_size is idempotent: applied to its own result it returns
\* that result.
C12_Idempotent == (out.st = "twice") => out.v = out.first

C12_Witness == out.st = "twice" /\ out.first # inp /\ out.v = out.first

(***************************************************************************)
(* scipy.ndimage as LabelMorphology and DataLabelling use it, with the     *)
(* structure generate_binary_structure(n, 1): a voxel and its face         *)
(* neighbours.  Boolean arrays hold 0 and 1.                               *)
(***************************************************************************)
\* the indices of an array of the given shape the structure covers at p
Structure(p, shape) ==
    {q \in Idx(shape) :
        \/ q = p
        \/ \E ax \in 1..Len(p) :
              /\ (p[ax] - q[ax] = 1 \/ q[ax] - p[ax] = 1)
              /\ \A o \in 1..Len(p) : o # ax => p[o] = q[o]}

\* p has a face neighbour outside the array
AtBorder(p, shape) == \E ax \in 1..Len(p) : p[ax] = 0 \/ p[ax] = shape[ax] - 1

\* one pass of ndi.binary_dilation (border_value = 0)
BinaryDilate1(a) ==
    [shape |-> a.shape,
     val |-> [p \in DOMAIN a.val |->
                IF \E q \in Structure(p, a.shape) : a.val[q] # 0 THEN 1 ELSE 0]]

\* one pass of ndi.binary_erosion (border_value = 0: what lies outside the
\* array counts as background)
BinaryErode1(a) ==
    [shape |-> a.shape,
     val |-> [p \in DOMAIN a.val |->
                IF /\ ~AtBorder(p, a.shape)
                   /\ \A q \in Structure(p, a.shape) : a.val[q] # 0
                THEN 1 ELSE 0]]

RECURSIVE binary_dilation(_, _)
\* ndi.binary_dilation(a, structure, iterations): iterations < 1 repeats the
\* pass until the result no longer changes
binary_dilation(a, iterations) ==
    LET b == BinaryDilate1(a)
    IN  IF iterations = 1 THEN b
        ELSE IF iterations > 1 THEN binary_dilation(b, iterations - 1)
        ELSE IF BinaryDilate1(b) = b THEN b
        ELSE binary_dilation(b, iterations)

RECURSIVE binary_erosion(_, _)
\* ndi.binary_erosion(a, structure, iterations)
binary_erosion(a, iterations) ==
    LET b == BinaryErode1(a)
    IN  IF iterations = 1 THEN b
        ELSE IF iterations > 1 THEN binary_erosion(b, iterations - 1)
        ELSE IF BinaryErode1(b) = b THEN b
        ELSE binary_erosion(b, iterations)

\* ndi.binary_closing / ndi.binary_opening
binary_closing(a, iterations) == binary_erosion(binary_dilation(a, iterations), iterations)
binary_opening(a, iterations) == binary_dilation(binary_erosion(a, iterations), iterations)

\* ndi.grey_dilation / ndi.grey_erosion with a flat footprint (mode
\* 'reflect': a neighbour outside the array mirrors to the voxel itself)
grey_dilation(a) ==
    [shape |-> a.shape,
     val |-> [p \in DOMAIN a.val |-> SetMax({a.val[q] : q \in Structure(p, a.shape)})]]

grey_erosion(a) ==
    [shape |-> a.shape,
     val |-> [p \in DOMAIN a.val |-> SetMin({a.val[q] : q \in Structure(p, a.shape)})]]

grey_closing(a) == grey_erosion(grey_dilation(a))
grey_opening(a) == grey_dilation(grey_erosion(a))

\* index tuple p comes before q in raster (C) order
RasterLess(p, q) ==
    \E i \in 1..Len(p) : p[i] < q[i] /\ \A j \in 1..(i - 1) : p[j] = q[j]

\* the voxel of a region met first in raster order
FirstVoxel(c) == CHOOSE p \in c : \A q \in c : q = p \/ RasterLess(p, q)

\* ndi.label with every foreground voxel in one region, numbered 1
ndi_label_OneRegion(a) ==
    [shape |-> a.shape, val |-> [p \in DOMAIN a.val |-> IF a.val[p] # 0 THEN 1 ELSE 0]]

\* ccs of ndi.label(a, structure): the face-connected regions of the nonzero
\* voxels, numbered from 1 in the order raster scanning meets them
ndi_label(a) ==
    LET cs == Components({p \in DOMAIN a.val : a.val[p] # 0})
        id(c) == 1 + Cardinality({o \in cs : RasterLess(FirstVoxel(o), FirstVoxel(c))})
    IN  [shape |-> a.shape,
         val |-> [p \in DOMAIN a.val |->
                    IF a.val[p] = 0 THEN 0
                    ELSE id(CHOOSE c \in cs : p \in c)]]

(***************************************************************************)
(* LabelMorphology, LabelMorphologyD and DataLabelling.  An optional       *)
(* argument is <<>> when it is left None and <<x>> when x is passed.       *)
(***************************************************************************)
NoArg == <<>>
Arg(x) == <<x>>
\* a if arg is None else arg
Given(a, arg) == IF arg = NoArg THEN a ELSE arg[1]

Modes == {"closing", "dilation", "erosion", "opening"}

ModeError == "AssertionError: Mode must be one of 'closing', 'dilation', 'erosion', 'opening'"
KeywordError == "ValueError: Unexpected keyword"
RankValueError == "ValueError: Currently only support 2D&3D data"

\* LabelMorphology.__init__: the attributes are set, then the mode asserted
NewLabelMorphology(mode, radius, binary) ==
    [cls |-> "LabelMorphology", mode |-> mode, radius |-> radius, binary |-> binary,
     st |-> IF mode \in Modes THEN "ok" ELSE ModeError]

RECURSIVE GreyRepeat(_, _, _)
\* for _ in range(radius): img = ndi.grey_<mode>(img, footprint=structure)
GreyRepeat(mode, img, radius) ==
    IF radius <= 0 THEN img
    ELSE GreyRepeat(mode,
                    CASE mode = "closing" -> grey_closing(img)
                      [] mode = "dilation" -> grey_dilation(img)
                      [] mode = "erosion" -> grey_erosion(img)
                      [] mode = "opening" -> grey_opening(img),
                    radius - 1)

\* the branch of LabelMorphology.__call__ for a recognised mode
Morph(mode, binary, radius, img) ==
    IF ~binary THEN GreyRepeat(mode, img, radius)
    ELSE CASE mode = "closing" -> binary_closing(img, radius)
           [] mode = "dilation" -> binary_dilation(img, radius)
           [] mode = "erosion" -> binary_erosion(img, radius)
           [] mode = "opening" -> binary_opening(img, radius)

\* LabelMorphology.__call__(img, mode, radius, binary): status, the operator
\* after the call, the returned array
LabelMorphologyCall(this, img, mode, radius, binary) ==
    LET self1 == [this EXCEPT !.mode = Given(this.mode, mode),
                              !.radius = Given(this.radius, radius),
                              !.binary = Given(this.binary, binary)]
        sq == Squeeze(img)
        input_ndim == Ndim(sq)
        channel_dim == IF input_ndim # Ndim(img) THEN IndexOfOne(img.shape) ELSE None
    IN  IF input_ndim \notin {2, 3} THEN [st |-> RankValueError, self |-> self1, v |-> NoArr]
        ELSE IF self1.mode \notin Modes THEN [st |-> KeywordError, self |-> self1, v |-> NoArr]
        ELSE LET r == Morph(self1.mode, self1.binary, self1.radius, sq)
             IN  [st |-> "ok", self |-> self1,
                  v |-> IF channel_dim # None THEN ExpandDims(r, channel_dim) ELSE r]

\* LabelMorphologyD.__init__: an argument is Scalar(x) or Tuple(<<x1, ...>>);
\* a scalar is repeated once per key, a tuple must have one entry per key
\* (ensure_tuple_rep raises ValueError otherwise), and a converter is built
\* with ('dilation', 0, True)
NewLabelMorphologyD(nkeys, mode, radius, binary) ==
    LET m == ensure_tuple_rep(mode, nkeys)
        r == ensure_tuple_rep(radius, nkeys)
        b == ensure_tuple_rep(binary, nkeys)
    IN  [cls |-> "LabelMorphologyD", nkeys |-> nkeys,
         mode |-> m.v.tuple,
         radius |-> r.v.tuple,
         binary |-> b.v.tuple,
         converter |-> NewLabelMorphology("dilation", 0, TRUE),
         st |-> IF m.ok /\ r.ok /\ b.ok THEN "ok" ELSE "ValueError"]

RECURSIVE MorphKeys_StopAtSkip(_, _, _)
\* the loop leaving at the first key whose radius is <= 0
MorphKeys_StopAtSkip(this, d, idx) ==
    IF idx > this.nkeys THEN [st |-> "ok", self |-> this, v |-> d]
    ELSE IF this.radius[idx] <= 0 THEN [st |-> "ok", self |-> this, v |-> d]
    ELSE LET r == LabelMorphologyCall(this.converter, d[idx], Arg(this.mode[idx]),
                                      Arg(this.radius[idx]), Arg(this.binary[idx]))
             self1 == [this EXCEPT !.converter = r.self]
         IN  IF r.st # "ok" THEN [st |-> r.st, self |-> self1, v |-> <<>>]
             ELSE MorphKeys_StopAtSkip(self1, [d EXCEPT ![idx] = r.v], idx + 1)

RECURSIVE MorphKeys(_, _, _)
\* the loop of LabelMorphologyD.__call__ from key idx on: a key whose radius
\* is <= 0 is skipped, the others go through the converter
MorphKeys(this, d, idx) ==
    IF idx > this.nkeys THEN [st |-> "ok", self |-> this, v |-> d]
    ELSE IF this.radius[idx] <= 0 THEN MorphKeys(this, d, idx + 1)
    ELSE LET r == LabelMorphologyCall(this.converter, d[idx], Arg(this.mode[idx]),
                                      Arg(this.radius[idx]), Arg(this.binary[idx]))
             self1 == [this EXCEPT !.converter = r.self]
         IN  IF r.st # "ok" THEN [st |-> r.st, self |-> self1, v |-> <<>>]
             ELSE MorphKeys(self1, [d EXCEPT ![idx] = r.v], idx + 1)

\* DataLabelling.__init__
NewDataLabelling == [cls |-> "DataLabelling", st |-> "ok"]

\* DataLabelling.__call__(img)
DataLabellingCall(this, img) ==
    LET sq == Squeeze(img)
        input_ndim == Ndim(sq)
        channel_dim == IF input_ndim # Ndim(img) THEN IndexOfOne(img.shape) ELSE None
        ccs == ndi_label(sq)
    IN  IF input_ndim \notin {2, 3} THEN [st |-> RankValueError, self |-> this, v |-> NoArr]
        ELSE [st |-> "ok", self |-> this,
              v |-> IF channel_dim # None THEN ExpandDims(ccs, channel_dim) ELSE ccs]

(***************************************************************************)
(* Arrays handed to LabelMorphology and DataLabelling.                     *)
(***************************************************************************)
\* (1,3,3): one voxel in the middle
Dot == Paint(<<1, 3, 3>>, << <<1, <<0, 1, 1>>, <<0, 1, 1>> >> >>, 0)

\* (1,4,4): two 2x2 blocks that touch at a corner only
Diagonal ==
    Paint(<<1, 4, 4>>, << <<1, <<0, 0, 0>>, <<0, 1, 1>> >>,
                          <<1, <<0, 2, 2>>, <<0, 3, 3>> >> >>, 0)

\* (3,3): no channel axis, an L of four voxels
Bare ==
    Paint(<<3, 3>>, << <<1, <<0, 0>>, <<2, 0>> >>, <<1, <<2, 0>>, <<2, 1>> >> >>, 0)

\* (1,1,3,3), (1,3,3,1) and (3,1,3): more than one axis of length 1, or the
\* axis of length 1 not in front
TwoOnes == Paint(<<1, 1, 3, 3>>, << <<1, <<0, 0, 1, 1>>, <<0, 0, 1, 2>> >> >>, 0)
Trailing == Paint(<<1, 3, 3, 1>>, << <<1, <<0, 1, 1, 0>>, <<0, 1, 1, 0>> >> >>, 0)
Middle == Paint(<<3, 1, 3>>, << <<1, <<0, 0, 0>>, <<0, 0, 1>> >> >>, 0)

\* (1,2,2,3): two voxels of a volume that share no face
Solid == Paint(<<1, 2, 2, 3>>, << <<1, <<0, 0, 0, 0>>, <<0, 0, 0, 0>> >>,
                                  <<1, <<0, 1, 1, 2>>, <<0, 1, 1, 2>> >> >>, 0)

\* (1,3): spatial rank 1 once squeezed
Row == Paint(<<1, 3>>, << <<1, <<0, 1>>, <<0, 1>> >> >>, 0)

\* (1,3,3): grey values, a voxel of value 2 inside a row of value 1
Grey == Paint(<<1, 3, 3>>, << <<1, <<0, 1, 0>>, <<0, 1, 2>> >>,
                              <<2, <<0, 1, 1>>, <<0, 1, 1>> >> >>, 0)

\* (1,3,4): three regions; raster order meets the one in the last column
\* first
Scattered == Paint(<<1, 3, 4>>, << <<1, <<0, 0, 3>>, <<0, 1, 3>> >>,
                                   <<1, <<0, 1, 0>>, <<0, 2, 0>> >>,
                                   <<1, <<0, 2, 2>>, <<0, 2, 2>> >> >>, 0)

\* (1,3,3): a voxel in the corner and, diagonally next to it, one in the
\* middle
Corner == Paint(<<1, 3, 3>>, << <<1, <<0, 0, 0>>, <<0, 0, 0>> >>,
                                <<1, <<0, 1, 1>>, <<0, 1, 1>> >> >>, 0)

MorphImages ==
    {Dot, Diagonal, Bare, TwoOnes, Trailing, Middle, Solid, Row, Grey, Scattered, Corner,
     Empty, Full}

MorphOperators ==
    {NewLabelMorphology(m, r, b) :
        m \in Modes \cup {"sharpen"}, r \in 0..MaxRadius, b \in BOOLEAN}
    \cup {NewLabelMorphologyD(n, Scalar(m), Scalar(r), Scalar(b)) :
        n \in 1..MaxKeys, m \in Modes \cup {"sharpen"}, r \in 0..MaxRadius, b \in BOOLEAN}
    \cup {NewLabelMorphologyD(2, Tuple(m), Tuple(r), Tuple(b)) :
        m \in {"dilation", "erosion"} \X {"erosion", "closing"},
        r \in ((-1)..MaxRadius) \X ((-1)..MaxRadius),
        b \in BOOLEAN \X BOOLEAN}
    \cup {NewDataLabelling}

\* ctor is the operator as its constructor left it; a LabelMorphology whose
\* constructor raised cannot be called
InitMorph ==
    /\ ctor \in MorphOperators
    /\ self = ctor
    /\ inp = NoArr
    /\ out = NoCall
    /\ th = [t \in Threads |-> Idle]

\* LabelMorphology.__call__
CallLabelMorphology ==
    /\ self.cls = "LabelMorphology"
    /\ self.st = "ok"
    /\ out = NoCall
    /\ \E img \in MorphImages :
       \E mode \in {NoArg, Arg("erosion"), Arg("sharpen")} : \E radius \in {NoArg, Arg(0)} :
          LET r == LabelMorphologyCall(self, img, mode, radius, NoArg)
          IN  /\ self' = r.self
              /\ out' = [st |-> r.st, v |-> r.v]
              /\ inp' = img
    /\ UNCHANGED <<ctor, th>>

\* LabelMorphologyD.__call__ on a dict holding the array under every key
CallLabelMorphologyD ==
    /\ self.cls = "LabelMorphologyD"
    /\ self.st = "ok"
    /\ out = NoCall
    /\ \E img \in MorphImages :
          LET r == MorphKeys(self, [k \in 1..self.nkeys |-> img], 1)
          IN  /\ self' = r.self
              /\ out' = [st |-> r.st, v |-> r.v]
              /\ inp' = img
    /\ UNCHANGED <<ctor, th>>

\* DataLabelling.__call__
CallDataLabelling ==
    /\ self.cls = "DataLabelling"
    /\ out = NoCall
    /\ \E img \in MorphImages :
          LET r == DataLabellingCall(self, img)
          IN  /\ self' = r.self
              /\ out' = [st |-> r.st, v |-> r.v]
              /\ inp' = img
    /\ UNCHANGED <<ctor, th>>

\* the rescaler chain of the rjh datasets on the label: DataLabelling, then
\* LabelMorphologyD on its result; inp is the labelled map the morphology
\* is given (the unlabelled array when DataLabelling raises)
CallLabellingThenMorphologyD ==
    /\ self.cls = "LabelMorphologyD"
    /\ self.nkeys = 1
    /\ self.st = "ok"
    /\ out = NoCall
    /\ \E img \in MorphImages :
          LET l == DataLabellingCall(NewDataLabelling, img)
              r == MorphKeys(self, <<l.v>>, 1)
          IN  IF l.st # "ok"
              THEN /\ out' = [st |-> l.st, v |-> <<>>]
                   /\ inp' = img
                   /\ self' = self
              ELSE /\ self' = r.self
                   /\ out' = [st |-> r.st, v |-> r.v]
                   /\ inp' = l.v
    /\ UNCHANGED <<ctor, th>>

NextMorph ==
    \/ CallLabelMorphology
    \/ CallLabelMorphologyD
    \/ CallDataLabelling
    \/ CallLabellingThenMorphologyD

SpecMorph == InitMorph /\ [][NextMorph]_vars

\* C13: LabelMorphology called with radius 0 returns an array equal to its
\* input, in each of the four modes, binary or not.
C13_RadiusZeroIdentity ==
    (ctor.cls = "LabelMorphology" /\ out.st = "ok" /\ self.radius = 0) => out.v = inp

\* C14: LabelMorphology and DataLabelling return an array of the shape of
\* their input, wherever its axes of length 1 are.
C14_ShapeKept ==
    (ctor.cls \in {"LabelMorphology", "DataLabelling"} /\ out.st = "ok") =>
        out.v.shape = inp.shape

\* the mode a call works with: the one LabelMorphology holds after taking its
\* argument, the one LabelMorphologyD was built with
ModeUsed == IF ctor.cls = "LabelMorphologyD" THEN ctor.mode[1] ELSE self.mode

\* C15: a mode outside closing, dilation, erosion, opening is rejected when
\* LabelMorphology or LabelMorphologyD is built or, at the latest, called,
\* whatever the radius.
C15_BadModeRejected ==
    (ctor.cls \in {"LabelMorphology", "LabelMorphologyD"} /\ ModeUsed \notin Modes) =>
        (self.st # "ok" \/ out.st # "ok")

\* the ids a labelled map uses
IdsOf(a) == {v \in Unique(a) : v # 0}

\* C16: DataLabelling keeps background at 0 and gives two foreground voxels
\* the same positive id exactly when they are in one face-connected region;
\* the ids used are 1..n.
C16_RegionsNumbered ==
    (ctor.cls = "DataLabelling" /\ out.st = "ok") =>
        LET img == Squeeze(inp)
            ccs == Squeeze(out.v)
        IN  /\ \A p \in DOMAIN img.val : (img.val[p] = 0) <=> (ccs.val[p] = 0)
            /\ \A p, q \in Foreground(img) : Adjacent(p, q) => ccs.val[p] = ccs.val[q]
            /\ \A i \in IdsOf(ccs) :
                  LET V == {p \in DOMAIN ccs.val : ccs.val[p] = i}
                      v == CHOOSE p \in V : TRUE
                  IN  Grow({v}, {v}, V) = V
            /\ IdsOf(ccs) = 1..Cardinality(IdsOf(ccs))

C16_Witness ==
    /\ ctor.cls = "DataLabelling"
    /\ out.st = "ok"
    /\ Cardinality(IdsOf(out.v)) = 3
    /\ Cardinality(Foreground(inp)) = 5

(***************************************************************************)
(* RandLabelToMask and RandLabelToMaskD (one image key).  select_labels is *)
(* a sequence of ids; an id argument left None is None.                    *)
(***************************************************************************)
\* RandLabelToMask.__init__; select_label is not set before the first call
NewLabelToMask(select_labels, merge_channels) ==
    [cls |-> "RandLabelToMask", select_labels |-> select_labels,
     merge_channels |-> merge_channels, select_label |-> None]

\* np.any(data, axis=0, keepdims=True)
AnyChannel(data) ==
    LET ns == <<1>> \o Tail(data.shape)
    IN  [shape |-> ns,
         val |-> [i \in Idx(ns) |->
                    IF \E c \in 0..(data.shape[1] - 1) : data.val[<<c>> \o Tail(i)] # 0
                    THEN 1 ELSE 0]]

\* the ids R.choice(select_labels, 1)[0] can return
Choices(select_labels) == {select_labels[i] : i \in 1..Len(select_labels)}

\* RandLabelToMask.__call__(img, select_label, merge_channels): every
\* outcome, each with the operator after the call
LabelToMaskCall(this, img, select_label, merge_channels) ==
    IF select_label = None /\ Choices(this.select_labels) = {}
    THEN {[st |-> "ValueError", self |-> this, v |-> NoArr, sel |-> None, drew |-> TRUE]}
    ELSE {LET this1 == [this EXCEPT !.select_label = c]
              data == SubMask(img, c)
          IN  IF ~data.ok
              THEN [st |-> "IndexError", self |-> this1, v |-> NoArr, sel |-> c,
                    drew |-> select_label = None]
              ELSE [st |-> "ok", self |-> this1,
                    v |-> IF merge_channels \/ this.merge_channels
                          THEN AnyChannel(data.v) ELSE data.v,
                    sel |-> c, drew |-> select_label = None]
          : c \in IF select_label = None THEN Choices(this.select_labels)
                  ELSE {select_label}}

\* RandLabelToMaskD.__init__; cls_label_key is TRUE when a key is given
NewLabelToMaskD(select_labels, merge_channels, cls_label_key, select_msk_label) ==
    [cls |-> "RandLabelToMaskD", select_labels |-> select_labels,
     cls_label_key |-> cls_label_key, select_label |-> select_msk_label,
     converter |-> NewLabelToMask(select_labels, merge_channels)]

LabelLenError == "AssertionError: length of cls_label_key must equal to length of mask select_labels"

\* len(label) of the label entry; an int has no len()
LabelLen(label) ==
    IF label.type = "dict" THEN Cardinality(DOMAIN label.v) ELSE Len(label.v)

\* lines 357-367: the label entry is read, measured, turned into a dict and
\* looked up; st is "ok" or the exception raised
ClsLabel(this, label) ==
    IF label.type = "int" THEN [st |-> "TypeError", v |-> None]
    ELSE IF LabelLen(label) # Len(this.select_labels) THEN [st |-> LabelLenError, v |-> None]
    ELSE IF this.select_label \notin DOMAIN NormLabel(label) THEN [st |-> "KeyError", v |-> None]
    ELSE [st |-> "ok", v |-> NormLabel(label)[this.select_label]]

\* RandLabelToMaskD.__call__(data): every outcome; d is the returned dict
LabelToMaskDCall(this, d) ==
    IF this.select_label = None /\ Choices(this.select_labels) = {}
    THEN {[st |-> "ValueError", self |-> this, d |-> NoSample, sel |-> None, drew |-> TRUE]}
    ELSE {LET this1 == [this EXCEPT !.select_label = c]
              drew == this.select_label = None
              lab == IF this.cls_label_key THEN ClsLabel(this1, d.label)
                     ELSE [st |-> "ok", v |-> None]
              r == CHOOSE x \in LabelToMaskCall(this1.converter, d.mask, c, FALSE) : TRUE
              this2 == [this1 EXCEPT !.converter = r.self]
          IN  IF lab.st # "ok"
              THEN [st |-> lab.st, self |-> this1, d |-> NoSample, sel |-> c, drew |-> drew]
              ELSE IF r.st # "ok"
              THEN [st |-> r.st, self |-> this2, d |-> NoSample, sel |-> c, drew |-> drew]
              ELSE [st |-> "ok", self |-> this2,
                    d |-> [d EXCEPT !.mask = r.v,
                                    !.label = IF this.cls_label_key THEN LabelInt(lab.v)
                                              ELSE d.label],
                    sel |-> c, drew |-> drew]
          : c \in IF this.select_label = None THEN Choices(this.select_labels)
                  ELSE {this.select_label}}

\* the dicts RandLabelToMaskD is given; RandLabelToMask is given their mask
SelectSamples ==
    {Sample(ThreeIds, l, <<1, 6, 6>>) :
        l \in {LabelList(<<10, 20, 30>>), LabelDict([i \in {1, 2, 3} |-> 10 * i])}}
    \cup {Sample(Planar(s), l, <<1, 6, 6>>) : s \in Shifts, l \in Labels2}
    \cup {Sample(Dot, l, <<1, 3, 3>>) :
            l \in {LabelInt(10), LabelList(<<10>>), LabelDict([i \in {1} |-> 10])}}
    \cup {Sample(OneHot, LabelList(<<10, 20>>), <<2, 3, 3>>)}

SelectLabels == {<<1>>, <<2>>, <<1, 2>>, <<1, 2, 3>>}

SelectOperators ==
    {NewLabelToMask(sl, mc) : sl \in SelectLabels, mc \in BOOLEAN}
    \cup {NewLabelToMaskD(sl, mc, key, id) :
            sl \in SelectLabels, mc \in BOOLEAN, key \in BOOLEAN, id \in {None, 1, 2}}

InitSelect ==
    /\ ctor \in SelectOperators
    /\ self = ctor
    /\ inp = NoSample
    /\ out = NoCall
    /\ th = [t \in Threads |-> Idle]

\* RandLabelToMask.__call__; arg is the select_label argument
CallLabelToMask ==
    /\ self.cls = "RandLabelToMask"
    /\ out = NoCall
    /\ \E d \in SelectSamples : \E id \in {None, 1, 2, 3} : \E mc \in BOOLEAN :
       \E r \in LabelToMaskCall(self, d.mask, id, mc) :
          /\ self' = r.self
          /\ out' = [st |-> r.st, d |-> [NoSample EXCEPT !.mask = r.v], sel |-> r.sel,
                     drew |-> r.drew, arg |-> id]
          /\ inp' = d
    /\ UNCHANGED <<ctor, th>>

\* RandLabelToMaskD.__call__; arg is the id the operator held when called
CallLabelToMaskD ==
    /\ self.cls = "RandLabelToMaskD"
    /\ out = NoCall
    /\ \E d \in SelectSamples : \E r \in LabelToMaskDCall(self, d) :
          /\ self' = r.self
          /\ out' = [st |-> r.st, d |-> r.d, sel |-> r.sel, drew |-> r.drew,
                     arg |-> self.select_label]
          /\ inp' = d
    /\ UNCHANGED <<ctor, th>>

\* RandLabelToMask.randomize(), called from outside __call__
RandomizeLabelToMask ==
    /\ self.cls = "RandLabelToMask"
    /\ \E c \in Choices(self.select_labels) : self' = [self EXCEPT !.select_label = c]
    /\ UNCHANGED <<ctor, inp, out, th>>

\* RandLabelToMaskD.randomize(), called from outside __call__; the converter
\* is not touched
RandomizeLabelToMaskD ==
    /\ self.cls = "RandLabelToMaskD"
    /\ \E c \in Choices(self.select_labels) : self' = [self EXCEPT !.select_label = c]
    /\ UNCHANGED <<ctor, inp, out, th>>

NextSelect ==
    \/ CallLabelToMask
    \/ CallLabelToMaskD
    \/ RandomizeLabelToMask
    \/ RandomizeLabelToMaskD
    \/ Return

SpecSelect == InitSelect /\ [][NextSelect]_vars

\* the call was given its id: as the argument of RandLabelToMask.__call__, or
\* by the constructor of RandLabelToMaskD
ExplicitId ==
    IF ctor.cls = "RandLabelToMask" THEN out.arg # None ELSE ctor.select_label # None

\* C17: with an explicit id and a single-channel integer-coded mask, the mask
\* returned is true exactly at the voxels of the input that carry the id, and
\* RandLabelToMaskD returns as label the dictionary's value for the id.
C17_ExactSubmask ==
    (Returned /\ ExplicitId /\ inp.mask.shape[1] = 1) =>
        /\ out.d.mask.shape = inp.mask.shape
        /\ \A p \in DOMAIN inp.mask.val :
              (out.d.mask.val[p] # 0) <=> (inp.mask.val[p] = out.sel)
        /\ (ctor.cls = "RandLabelToMaskD" /\ ctor.cls_label_key) =>
              out.d.label = LabelInt(NormLabel(inp.label)[out.sel])

C17_Witness ==
    /\ Returned
    /\ ctor.cls = "RandLabelToMaskD"
    /\ ctor.cls_label_key
    /\ ctor.select_label = 2
    /\ out.d.label = LabelInt(20)
    /\ Foreground(out.d.mask) # {}
    /\ Foreground(out.d.mask) # Foreground(inp.mask)

\* C18: an id chosen without an explicit id is one of the positive ids of
\* the input mask, so the returned mask is not empty when the input has
\* foreground.
C18_IdPresent ==
    (out # NoCall /\ ~ExplicitId /\ out.sel # None /\ inp.mask.shape[1] = 1) =>
        /\ out.sel \in UniquePositive(inp.mask)
        /\ (Returned /\ Foreground(inp.mask) # {}) => Foreground(out.d.mask) # {}

\* C19: RandLabelToMaskD with a label key takes the label entry as a
\* mapping, a list (i-th element for id i) or a scalar (for id 1): when the
\* entry has one value per select_labels id and holds the selected id, the
\* call returns the value of that id.
C19_LabelForms ==
    (/\ out # NoCall
     /\ ctor.cls = "RandLabelToMaskD"
     /\ ctor.cls_label_key
     /\ inp.mask.shape[1] = 1
     /\ Cardinality(DOMAIN NormLabel(inp.label)) = Len(ctor.select_labels)
     /\ out.sel \in DOMAIN NormLabel(inp.label)) =>
        /\ Returned
        /\ out.d.label = LabelInt(NormLabel(inp.label)[out.sel])

\* C20: no call of RandMarginalCropByMaskD or RandMarginalCrop2DByMaskD
\* returns an image or a mask with an axis of length 0.
C20_NoEmptyCrop ==
    Returned =>
        /\ \A i \in 1..Len(out.d.mask.shape) : out.d.mask.shape[i] > 0
        /\ \A k \in 1..Len(out.d.images) :
              \A i \in 1..Len(out.d.images[k].shape) : out.d.images[k].shape[i] > 0

\* the case of C21: RandMarginalCropByMaskD with margin (1,1) on the (10,10)
\* mask whose foreground is the square at rows 4..6, columns 4..6
C21_Case ==
    /\ Called
    /\ IsByMask(ctor)
    /\ inp.mask = Square
    /\ First.raw # <<>>
    /\ self.margin_size = Tuple(<<1, 1>>)

\* C21 as claimed: the box is (3,7,3,7) before and (2,8,2,8) after the margin.
C21_BoxAsClaimed ==
    C21_Case => /\ First.raw = << <<3, 7>>, <<3, 7>> >>
                /\ First.box = << <<2, 8>>, <<2, 8>> >>

\* C21: the box (rmin, rmax, cmin, cmax) is (4,6,4,6) before the margin, the
\* minimal inclusive box of the foreground, and (3,7,3,7) after margin (1,1).
C21_MinimalBox ==
    C21_Case => /\ First.raw = << <<4, 6>>, <<4, 6>> >>
                /\ First.box = << <<3, 7>>, <<3, 7>> >>

C21_Witness == C21_Case /\ Returned /\ ctor.margin_size = Scalar(1)

\* C25: for a 3D submask with foreground, RandMarginalCrop2DByMaskD has a
\* central slice to draw and the drawn z lies in zmin..zmax, also when the
\* foreground lies in one through-plane slice.
C25_SliceDrawn ==
    (Called /\ ~IsByMask(ctor) /\ First.ndim = 3 /\ First.raw # <<>>) =>
        /\ First.z # None
        /\ First.raw[3][1] <= First.z
        /\ First.z <= First.raw[3][2]

\* C28: with several image keys every key is processed, each cut with the
\* window the first key was cut with, from the sample's own mask and labels.
C28_EveryKeySameWindow ==
    (Called /\ ctor.nkeys > 1 /\ First.wins # <<>> /\ Len(out.locs) > 1) =>
        /\ Returned
        /\ \A k \in 1..Len(out.locs) :
              /\ out.locs[k].wins = First.wins
              /\ out.locs[k].lab = First.lab

\* what LabelMorphologyD is to return for key k: the array it was given when
\* the key's radius is <= 0, otherwise the array a fresh LabelMorphology
\* returns for the key's own mode, radius and binary
C22_Expected(k) ==
    IF ctor.radius[k] <= 0 THEN inp
    ELSE LabelMorphologyCall(NewLabelMorphology("dilation", 0, TRUE), inp,
                             Arg(ctor.mode[k]), Arg(ctor.radius[k]), Arg(ctor.binary[k])).v

\* C22: LabelMorphologyD leaves the value of every key whose radius is <= 0
\* as it was and applies the operation to the other keys, each with its own
\* mode, radius and binary.
C22_SkipLeavesKey ==
    (ctor.cls = "LabelMorphologyD" /\ out.st = "ok") =>
        \A k \in 1..ctor.nkeys : out.v[k] = C22_Expected(k)

C22_Witness ==
    /\ ctor.cls = "LabelMorphologyD"
    /\ out.st = "ok"
    /\ ctor.nkeys = 2
    /\ ctor.radius = <<0, 1>>
    /\ ctor.mode = <<"dilation", "erosion">>
    /\ ctor.binary = <<TRUE, FALSE>>
    /\ out.v[1] = inp
    /\ out.v[2] # inp

\* C23: after a call of LabelMorphology, with or without overrides, returned
\* or failed, the operator holds the mode, radius and binary its constructor
\* was given.
C23_ConfigurationKept ==
    (ctor.cls = "LabelMorphology" /\ out # NoCall) =>
        /\ self.mode = ctor.mode
        /\ self.radius = ctor.radius
        /\ self.binary = ctor.binary

\* C24: every call of a RandLabelToMaskD built without select_msk_label that
\* works with an id has drawn that id itself.
C24_DrawsEveryCall ==
    (/\ out # NoCall
     /\ ctor.cls = "RandLabelToMaskD"
     /\ ctor.select_label = None
     /\ out.sel # None) => out.drew

\* C26: on an array of zeros and ones and with a radius >= 1, LabelMorphology
\* returns the same foreground with binary=True as with binary=False, in
\* every mode.
C26_BinaryGreyAgree ==
    (/\ ctor.cls = "LabelMorphology"
     /\ out.st = "ok"
     /\ self.radius >= 1
     /\ Unique(inp) \subseteq {0, 1}) =>
        Foreground(out.v) =
            Foreground(LabelMorphologyCall([self EXCEPT !.binary = ~self.binary],
                                           inp, NoArg, NoArg, NoArg).v)

\* C27: grey dilation with a radius >= 1 of a map DataLabelling returned
\* keeps the set of positive ids.
C27_DilationKeepsIds ==
    (/\ ctor.cls = "LabelMorphologyD"
     /\ ctor.nkeys = 1
     /\ out.st = "ok"
     /\ ctor.mode[1] = "dilation"
     /\ ~ctor.binary[1]
     /\ ctor.radius[1] >= 1
     /\ DataLabellingCall(NewDataLabelling, inp).v = inp) =>
        IdsOf(out.v[1]) = IdsOf(inp)

(***************************************************************************)
(* Two RandMarginalCrop2DByMaskD operators (one key) whose random state R  *)
(* was set to the same seed, called on the same sample.  R is the          *)
(* operator's own generator; the module random is the generator of the     *)
(* process, which set_random_state does not touch, so what random.choice   *)
(* returns is any element of its argument.                                 *)
(***************************************************************************)
MaxSeed == 1
MaxDraws == 2

Seeds == 0..MaxSeed

\* np.random.RandomState(seed): the two low bits of the first 16 outputs of
\* MT19937 after init_genrand(seed), for the seeds 0, 1, 2, 3 (row seed + 1)
MT19937 ==
    << <<0, 3, 1, 0, 3, 3, 3, 3, 1, 3, 1, 2, 0, 3, 2, 0>>,
       <<1, 3, 0, 0, 3, 1, 3, 1, 3, 0, 0, 1, 0, 3, 1, 0>>,
       <<0, 3, 1, 0, 2, 3, 2, 3, 0, 3, 2, 1, 3, 3, 1, 3>>,
       <<2, 0, 1, 3, 0, 0, 0, 1, 1, 3, 2, 3, 1, 1, 2, 1>> >>

\* self.R after set_random_state(seed): the seed and the number n of outputs
\* taken from the generator since
NewR(seed) == [seed |-> seed, n |-> 0]

\* the output of R at position n, cut to the bits randint keeps for a
\* population of pop (2 to 4) entries
Masked(R, n, pop) == MT19937[R.seed + 1][n + 1] % (IF pop <= 2 THEN 2 ELSE 4)

RECURSIVE Accepted(_, _, _)
\* randint(0, pop): outputs are taken from position n on until one, masked,
\* is below pop; the position of that output
Accepted(R, n, pop) ==
    IF Masked(R, n, pop) < pop THEN n ELSE Accepted(R, n + 1, pop)

\* self.R.choice(label, 1)[0] for a tuple label of 1 to 4 entries; a
\* population of one entry takes no output
RChoice(R, label) ==
    IF Len(label) = 1 THEN label[1]
    ELSE label[Masked(R, Accepted(R, R.n, Len(label)), Len(label)) + 1]

\* R after self.R.choice(label, 1)
RAfter(R, label) ==
    IF Len(label) = 1 THEN R
    ELSE [R EXCEPT !.n = Accepted(R, R.n, Len(label)) + 1]

\* np.unique(...): the ids in ascending order
Ascending(ids) ==
    [k \in 1..Cardinality(ids) |->
        CHOOSE c \in ids : Cardinality({x \in ids : x < c}) = k - 1]

SeedOperators == {NewCrop2D(1, Scalar(2), 0, 0, kl, None) : kl \in BOOLEAN}

SeedSamples ==
    {Sample(Planar(s), LabelList(<<10, 20>>), <<1, 6, 6>>) : s \in Shifts}
    \cup {Sample(Cubic(s), LabelList(<<10, 20>>), <<1, 4, 4, 4>>) : s \in Shifts}
    \cup {Sample(Deep(s), LabelInt(10), <<1, 2, 2, DeepLen>>) : s \in Shifts}

\* the lists randomize is handed from outside __call__
SeedLabels == {<<1, 2>>, <<2, 1>>, <<1, 2, 3>>}

\* the call has run randomize
Drew(res) == res.locs # <<>> /\ res.locs[1].drew

\* this.op(d) for an operator with the generator this.R: the outcomes of
\* Call in which the id randomize stores is the one R gives; the slice z_
\* comes from random.choice and stays open
SeededCall(this, d) ==
    LET label == Ascending(Candidates(d.mask))
    IN  {[op |-> r[1],
          R |-> IF Drew(r[2]) THEN RAfter(this.R, label) ELSE this.R,
          res |-> r[2]] :
            r \in {x \in Call(this.op, d) :
                      Drew(x[2]) => x[2].locs[1].sel = RChoice(this.R, label)}}

\* both operators are built alike and given the same seed
InitSeed ==
    /\ ctor \in SeedOperators
    /\ \E seed \in Seeds : self = [i \in 1..2 |-> [op |-> ctor, R |-> NewR(seed)]]
    /\ inp = NoSample
    /\ out = [i \in 1..2 |-> NoCall]
    /\ th = [t \in Threads |-> Idle]

\* RandMarginalCrop2DByMaskD.__call__ of operator i, on the sample the other
\* operator was or will be given
CallSeeded(i) ==
    /\ out[i] = NoCall
    /\ \E d \in SeedSamples :
          /\ inp = NoSample \/ inp = d
          /\ \E r \in SeededCall(self[i], d) :
                /\ self' = [self EXCEPT ![i] = [op |-> r.op, R |-> r.R]]
                /\ out' = [out EXCEPT ![i] = r.res]
                /\ inp' = d
    /\ UNCHANGED <<ctor, th>>

\* RandMarginalCrop2DByMaskD.randomize(label) of operator i, called from
\* outside __call__ at any moment: select_msk is drawn from R
RandomizeSeeded(i) ==
    /\ self[i].R.n < MaxDraws
    /\ \E label \in SeedLabels :
          self' = [self EXCEPT ![i] = [op |-> [self[i].op EXCEPT
                                                !.select_msk = RChoice(self[i].R, label)],
                                       R |-> RAfter(self[i].R, label)]]
    /\ UNCHANGED <<ctor, inp, out, th>>

\* the caller takes both results; the operators are kept for the next sample
TakeResults ==
    /\ \A i \in 1..2 : out[i] # NoCall
    /\ out' = [i \in 1..2 |-> NoCall]
    /\ inp' = NoSample
    /\ UNCHANGED <<ctor, self, th>>

NextSeed == (\E i \in 1..2 : CallSeeded(i) \/ RandomizeSeeded(i)) \/ TakeResults

SpecSeed == InitSeed /\ [][NextSeed]_vars

\* C30: two RandMarginalCrop2DByMaskD operators seeded alike that hold the
\* same instance id, as equal draws from R give them, return the same crops
\* of image and mask and the same label for the same sample.
C30_SameSeedSameCrop ==
    (/\ out[1].st = "ok"
     /\ out[2].st = "ok"
     /\ out[1].locs[1].sel = out[2].locs[1].sel) => out[1].d = out[2].d

(***************************************************************************)
(* The checkpoint loading of the ensemble test engines.  An object is a    *)
(* name in the heap, which maps it to the weights it holds; a checkpoint   *)
(* is named by the weights it stores and the network handed in holds the   *)
(* weights 0.                                                              *)
(***************************************************************************)
MaxFolds == 3

Checkpoints == 1..MaxFolds

\* best_models: one checkpoint per fold found
BestModels == UNION {[1..n -> Checkpoints] : n \in 0..MaxFolds}

\* copy.deepcopy(obj): a new object holding what obj holds
deepcopy(heap, obj, new) ==
    [o \in DOMAIN heap \cup {new} |-> IF o = new THEN heap[obj] ELSE heap[o]]

\* [x, ] * n: a list whose n entries refer to the object x
ListTimes(x, n) == [i \in 1..n |-> x]

\* CheckpointLoader(load_path=m, load_dict={"net": net})(None): the object
\* net takes the weights of checkpoint m
LoadInto(heap, net, m) == [heap EXCEPT ![net] = m]

\* ctor is best_models, self the heap, inp the list nets, out the position
\* in the code
InitEnsemble ==
    /\ ctor \in BestModels
    /\ self = [o \in {"net"} |-> 0]
    /\ inp = <<>>
    /\ out = [pc |-> "build", i |-> 1]
    /\ th = [t \in Threads |-> Idle]

\* nets = [copy.deepcopy(net), ] * len(best_models)
BuildNets ==
    /\ out.pc = "build"
    /\ self' = deepcopy(self, "net", "copy")
    /\ inp' = ListTimes("copy", Len(ctor))
    /\ out' = [out EXCEPT !.pc = IF Len(ctor) = 0 THEN "done" ELSE "load"]
    /\ UNCHANGED <<ctor, th>>

\* one round of: for net, m in zip(nets, best_models): CheckpointLoader(...)
LoadCheckpoint ==
    /\ out.pc = "load"
    /\ self' = LoadInto(self, inp[out.i], ctor[out.i])
    /\ out' = [pc |-> IF out.i = Len(ctor) THEN "done" ELSE "load", i |-> out.i + 1]
    /\ UNCHANGED <<ctor, inp, th>>

NextEnsemble == BuildNets \/ LoadCheckpoint

SpecEnsemble == InitEnsemble /\ [][NextEnsemble]_vars

\* C29: after the loading loop the i-th network holds the weights of the
\* i-th checkpoint and the networks are distinct objects.
C29_OwnCheckpoint ==
    out.pc = "done" =>
        /\ \A i \in 1..Len(inp) : self[inp[i]] = ctor[i]
        /\ \A i, j \in 1..Len(inp) : i # j => inp[i] # inp[j]

====
